---- MODULE Spec2Model ----
(***************************************************************************)
(* Model of utils.py of computational_lit_review: the hyperparameter       *)
(* scaler (hyperP_scaler), the scoring of a corpus against a fitted topic  *)
(* model (inclusion_criteria), the shortlist exporter                      *)
(* (return_included_papers), fit_topic_model and the directory handling of *)
(* file_loader, corpus_eda and topic_outputs.                              *)
(*                                                                         *)
(* Numbers.  Python floats are IEEE-754 doubles.  hyperP_scaler is         *)
(* modelled bit-exactly (53-bit significand, round to nearest even).       *)
(* The pandas columns of inclusion_criteria are modelled as exact          *)
(* fractions n/d extended with NaN (0/0) and the infinities (+-1/0); the   *)
(* inputs are small integers, so every quotient the model compares is      *)
(* either equal or far apart and rounding does not change an order.        *)
(***************************************************************************)
EXTENDS Integers, Sequences, FiniteSets, TLC

VARIABLES
    size,        \* len(corpus) of the latest hyperP_scaler call
    topic_size,  \* first output of hyperP_scaler (min_topic_size)
    umap_size,   \* second output of hyperP_scaler (n_neighbors)
    corpus,      \* the corpus table handed to inclusion_criteria
    model,       \* the fitted topic model: its labels and its distribution
    weights,     \* the weight dictionary
    result,      \* outcome of the call: error raised, or the table returned
    pc,          \* position of the session
    raw,         \* the entries of the RIS file, as rispy.load yields them
    export,      \* what return_included_papers wrote and returned
    fs           \* the process and its file system: directories, cwd, calls

vars == <<size, topic_size, umap_size, corpus, model, weights, result, pc,
          raw, export, fs>>

\* the part of the state that the scaler and the scoring never touch
exporter == <<raw, export, fs>>

\* no export made, no file system looked at
NoExport == [err |-> "none", n |-> [all |-> TRUE, count |-> 0],
             returned |-> <<>>, csv_written |-> FALSE, csv |-> <<>>,
             ris_written |-> FALSE, ris |-> <<>>]
NoCall == [op |-> "none", err |-> "none", again |-> FALSE, same |-> TRUE,
           after_clean |-> TRUE]
NoFs == [cwd |-> <<>>, dirs |-> {}, files |-> {}, archived |-> 0, calls |-> 0,
         seen |-> {}, first |-> <<>>, clean |-> TRUE, last |-> NoCall]
Idle == raw = <<>> /\ export = NoExport /\ fs = NoFs

(***************************************************************************)
(* Bounds                                                                  *)
(***************************************************************************)
MaxSize == 16500   \* largest corpus size handed to hyperP_scaler
MaxGrow == 2       \* largest growth of the corpus between two calls
MaxRows == 2       \* largest number of records of a scored corpus
MaxCites == 1      \* largest citation count of a record
MaxAge == 1        \* publication years range over 2019..2019+MaxAge
MaxSkew == 1       \* largest difference between matrix rows and corpus rows
MaxEntries == 2    \* largest number of entries of a RIS file
MaxCalls == 3      \* largest number of calls of a notebook session

(***************************************************************************)
(* IEEE-754 double arithmetic, as far as hyperP_scaler needs it.           *)
(* A positive double is [m, lsb]: m is the 53-bit significand, most        *)
(* significant bit first, and lsb the exponent of its last bit.            *)
(***************************************************************************)
Precision == 53

FZero == [m |-> <<>>, lsb |-> 0]

RefScale == 2000  \* the divisor of hyperP_scaler

RECURSIVE Pow2Rec(_)
Pow2Rec(k) == IF k = 0 THEN 1 ELSE 2 * Pow2Rec(k - 1)

Pow2Table == [k \in 0..30 |-> Pow2Rec(k)]

Pow2(k) == Pow2Table[k]

\* 2^k modulo b, for b * b within the integers
RECURSIVE Pow2ModRec(_, _)
Pow2ModRec(k, b) ==
    IF k = 0 THEN 1 % b
    ELSE IF k % 2 = 0
         THEN (Pow2ModRec(k \div 2, b) * Pow2ModRec(k \div 2, b)) % b
    ELSE (2 * Pow2ModRec(k - 1, b)) % b

Pow2ModTable == [k \in 0..(2 * Precision) |-> Pow2ModRec(k, RefScale)]

Pow2Mod(k, b) == IF b = RefScale THEN Pow2ModTable[k] ELSE Pow2ModRec(k, b)

\* number of binary digits of a natural number (0 for 0)
RECURSIVE BitLen(_)
BitLen(i) == IF i = 0 THEN 0 ELSE 1 + BitLen(i \div 2)

\* the w low binary digits of a natural number, most significant first
Digits(i, w) == [j \in 1..w |-> (i \div Pow2(w - j)) % 2]

BinDigits(i) == Digits(i, BitLen(i))

RECURSIVE BitsToInt(_)
BitsToInt(b) ==
    IF b = <<>> THEN 0
    ELSE IF Len(b) = 1 THEN b[1]
    ELSE LET h == Len(b) \div 2
         IN  BitsToInt(SubSeq(b, 1, h)) * Pow2(Len(b) - h)
                 + BitsToInt(SubSeq(b, h + 1, Len(b)))

\* digit j after the point of r / b, and what is left of r / b after k
\* digits (0 <= r < b): long division, one binary digit at a time
FracRem(r, b, k) == (r * Pow2Mod(k, b)) % b
FracDigit(r, b, j) == (2 * FracRem(r, b, j - 1)) \div b

\* number of zero digits of r / b right after the point (0 < r < b)
RECURSIVE LeadZeros(_, _)
LeadZeros(r, b) == IF 2 * r >= b THEN 0 ELSE 1 + LeadZeros(2 * r, b)

\* significand + 1
Increment(m) ==
    IF \A i \in 1..Len(m) : m[i] = 1
    THEN [m |-> [i \in 1..Len(m) |-> IF i = 1 THEN 1 ELSE 0], carry |-> 1]
    ELSE LET z == CHOOSE i \in 1..Len(m) :
                      m[i] = 0 /\ \A j \in (i + 1)..Len(m) : m[j] = 1
         IN  [m |-> [i \in 1..Len(m) |->
                        IF i < z THEN m[i] ELSE IF i = z THEN 1 ELSE 0],
              carry |-> 0]

\* round to nearest, ties to even: digits holds at least Precision + 1
\* significant digits (the first is 1), lsb is the exponent of the last one,
\* sticky says that something non-zero lies beyond them
RoundNearestEven(digits, lsb, sticky) ==
    LET extra == Len(digits) - Precision
        m     == SubSeq(digits, 1, Precision)
        guard == digits[Precision + 1]
        tail  == sticky \/ \E i \in (Precision + 2)..Len(digits) : digits[i] = 1
        up    == guard = 1 /\ (tail \/ m[Precision] = 1)
        inc   == Increment(m)
    IN  IF up THEN [m |-> inc.m, lsb |-> lsb + extra + inc.carry]
        ELSE [m |-> m, lsb |-> lsb + extra]

\* the double nearest to a / b, for naturals a and b > 0 (Python's int / int)
TrueDiv(a, b) ==
    IF a = 0 THEN FZero
    ELSE LET ip   == BinDigits(a \div b)
             r    == a % b
             z    == IF ip = <<>> THEN LeadZeros(r, b) ELSE 0
             k    == z + Precision + 1 - Len(ip)
             frac == [j \in 1..(k - z) |-> FracDigit(r, b, z + j)]
         IN  RoundNearestEven(ip \o frac, -k, FracRem(r, b, k) # 0)

\* digits of (significand m) * c for a natural c < 16, computed on the two
\* halves of m
HalfBits == 26

MulDigits(m, c) ==
    LET hi   == BitsToInt(SubSeq(m, 1, Len(m) - HalfBits))
        lo   == BitsToInt(SubSeq(m, Len(m) - HalfBits + 1, Len(m)))
        low  == lo * c
        high == hi * c + low \div Pow2(HalfBits)
    IN  BinDigits(high) \o Digits(low % Pow2(HalfBits), HalfBits)

\* the double nearest to f * c (float * int: c converts exactly)
FMul(f, c) ==
    IF f.m = <<>> \/ c = 0 THEN FZero
    ELSE LET d == MulDigits(f.m, c)
         IN  IF Len(d) <= Precision
             THEN [m |-> d \o [i \in 1..(Precision - Len(d)) |-> 0],
                   lsb |-> f.lsb - (Precision - Len(d))]
             ELSE RoundNearestEven(d, f.lsb, FALSE)

\* int(f): truncation toward zero
FTrunc(f) ==
    IF f.m = <<>> THEN 0
    ELSE IF f.lsb >= 0 THEN BitsToInt(f.m) * Pow2(f.lsb)
    ELSE IF -f.lsb >= Len(f.m) THEN 0
    ELSE BitsToInt(SubSeq(f.m, 1, Len(f.m) + f.lsb))

(***************************************************************************)
(* hyperP_scaler                                                           *)
(***************************************************************************)
TopicSlope == 10
UmapSlope == 15

\* the scaling without its + 1
Scaled_NoFloor(n, slope) == FTrunc(FMul(TrueDiv(n, RefScale), slope))

\* int(len(corpus) / 2000 * slope) + 1
Scaled(n, slope) == FTrunc(FMul(TrueDiv(n, RefScale), slope)) + 1

hyperP_scaler(n) == <<Scaled(n, TopicSlope), Scaled(n, UmapSlope)>>

(***************************************************************************)
(* Cell values of the pandas tables: fractions n/d in lowest terms with    *)
(* d > 0, NaN = 0/0, +inf = 1/0, -inf = -1/0.                              *)
(***************************************************************************)
RECURSIVE GCD(_, _)
GCD(a, b) == IF b = 0 THEN a ELSE GCD(b, a % b)

Abs(i) == IF i < 0 THEN -i ELSE i

Frac(n, d) ==
    IF d = 0 THEN [n |-> IF n > 0 THEN 1 ELSE IF n < 0 THEN -1 ELSE 0, d |-> 0]
    ELSE LET g == GCD(Abs(n), Abs(d))
             sg == IF d < 0 THEN -1 ELSE 1
         IN  [n |-> sg * (n \div g), d |-> Abs(d) \div g]

Num(i) == [n |-> i, d |-> 1]
NaN == [n |-> 0, d |-> 0]
IsNaN(x) == x.n = 0 /\ x.d = 0
IsFinite(x) == x.d # 0

\* float addition, subtraction, multiplication and division (no exception:
\* numpy yields nan or inf where Python's own division would raise)
Add(x, y) ==
    IF IsNaN(x) \/ IsNaN(y) THEN NaN
    ELSE IF x.d = 0 /\ y.d = 0 THEN (IF x.n = y.n THEN x ELSE NaN)
    ELSE IF x.d = 0 THEN x
    ELSE IF y.d = 0 THEN y
    ELSE Frac(x.n * y.d + y.n * x.d, x.d * y.d)

Neg(x) == [n |-> -x.n, d |-> x.d]
Sub(x, y) == Add(x, Neg(y))

Mul(x, y) ==
    IF IsNaN(x) \/ IsNaN(y) THEN NaN
    ELSE Frac(x.n * y.n, x.d * y.d)

Div(x, y) ==
    IF IsNaN(x) \/ IsNaN(y) THEN NaN
    ELSE IF x.d = 0 /\ y.d = 0 THEN NaN
    ELSE IF y.d = 0 THEN Num(0)
    ELSE IF x.d = 0 THEN (IF y.n < 0 THEN Neg(x) ELSE x)
    ELSE Frac(x.n * y.d, x.d * y.n)

\* x < y and x <= y on values that are not NaN
Less(x, y) ==
    IF x.d = 0 \/ y.d = 0
    THEN (IF x.d = 0 /\ y.d = 0 THEN x.n < y.n
          ELSE IF x.d = 0 THEN x.n < 0 ELSE y.n > 0)
    ELSE x.n * y.d < y.n * x.d

Leq(x, y) == x = y \/ Less(x, y)

(***************************************************************************)
(* pandas helpers.  A column is a sequence of cell values, one per row.    *)
(***************************************************************************)
\* Series.min() and Series.max(): NaN cells are skipped, NaN when none is left
SeriesMin(col) ==
    LET vals == {col[i] : i \in {j \in 1..Len(col) : ~IsNaN(col[j])}}
    IN  IF vals = {} THEN NaN
        ELSE CHOOSE v \in vals : \A w \in vals : Leq(v, w)

SeriesMax(col) ==
    LET vals == {col[i] : i \in {j \in 1..Len(col) : ~IsNaN(col[j])}}
    IN  IF vals = {} THEN NaN
        ELSE CHOOSE v \in vals : \A w \in vals : Leq(w, v)

\* a column computed cell by cell, held as a sequence
Series(f) == f \o <<>>

\* a normalisation that divides by the maximum instead of the range
MinMaxNormalise_ByMax(col) ==
    LET mn == SeriesMin(col)
        mx == SeriesMax(col)
    IN  Series([i \in 1..Len(col) |-> Div(Sub(col[i], mn), mx)])

\* (col - col.min()) / (col.max() - col.min())
MinMaxNormalise(col) ==
    LET mn == SeriesMin(col)
        mx == SeriesMax(col)
    IN  Series([i \in 1..Len(col) |-> Div(Sub(col[i], mn), Sub(mx, mn))])

\* col * w
Scale(col, w) == Series([i \in 1..Len(col) |-> Mul(col[i], w)])

\* DataFrame.sum(axis=1) of one row: NaN cells are skipped, 0 when none is left
RECURSIVE RowSum(_, _)
RowSum(cells, names) ==
    IF names = <<>> THEN Num(0)
    ELSE LET c == cells[names[1]]
         IN  Add(IF IsNaN(c) THEN Num(0) ELSE c, RowSum(cells, Tail(names)))

(***************************************************************************)
(* inclusion_criteria                                                      *)
(***************************************************************************)
Reserved == {"cites", "recency", "topics"}

\* lines 657-666 (and 559-568 of topic_outputs): the distribution of the
\* model is turned into a table whose columns are named by the labels after
\* the first, and put to the right of the corpus, row by row.
\*   pd.DataFrame(topic_distr, columns=col_names[1:]) raises ValueError when
\*   the number of names is not the number of columns of the matrix;
\*   pd.concat(axis=1) pads the shorter table with NaN rows.
Integrate(c, m) ==
    LET col_names == m.topic_labels_
        columns   == IF col_names = <<>> THEN <<>> ELSE Tail(col_names)
        R         == Len(m.topic_distr)
        N         == Len(c)
        n         == IF R > N THEN R ELSE N
    IN  IF Len(columns) # m.n_topics
        THEN [err |-> "ValueError", columns |-> <<>>, rows |-> <<>>]
        ELSE [err |-> "none",
              columns |-> columns,
              rows |-> Series([i \in 1..n |->
                 [idx |-> i,
                  Citations |-> IF i <= N THEN Num(c[i].Citations) ELSE NaN,
                  Year |-> IF i <= N THEN Num(c[i].Year) ELSE NaN,
                  topics |-> [k \in {columns[j] : j \in 1..Len(columns)} |->
                                IF i <= R
                                THEN m.topic_distr[i][
                                       CHOOSE j \in 1..Len(columns) :
                                           columns[j] = k]
                                ELSE NaN]]])]

\* the keys of the weights that the loop of lines 670-683 treats as topics
TopicKeys(w) == (DOMAIN w) \ Reserved

\* a sequence holding the elements of a set of strings (the order in which
\* the dictionary yields its keys; no result depends on it)
RECURSIVE SeqOf(_)
SeqOf(S) == IF S = {} THEN <<>>
            ELSE LET x == CHOOSE y \in S : TRUE IN <<x>> \o SeqOf(S \ {x})

\* a lookup that falls back on 0, as weights.get(key, 0) would
Lookup_Default(w, key) ==
    [raised |-> FALSE, value |-> IF key \in DOMAIN w THEN w[key] ELSE Num(0)]

\* weights[key] of line 690: the value, or KeyError raised
Lookup(w, key) ==
    IF key \in DOMAIN w THEN [raised |-> FALSE, value |-> w[key]]
    ELSE [raised |-> TRUE, value |-> NaN]

\* does the body of inclusion_criteria raise KeyError?
\*   line 682: output[key] for a key that names no column
\*   line 690: weights['topics']
\*   line 693: output['cite_score'], output['recency_score'] are only made
\*             by the loop when it meets the keys 'cites', 'recency'
RaisesKeyError(w, columns) ==
    \/ \E k \in TopicKeys(w) : k \notin {columns[j] : j \in 1..Len(columns)}
    \/ Lookup(w, "topics").raised
    \/ "cites" \notin DOMAIN w
    \/ "recency" \notin DOMAIN w

\* DataFrame.sort_values(by=['score'], ascending=False): NaN scores last, in
\* their old order; the default kind is quicksort, which is not stable, so
\* rows of equal score may come out in any order
IsSortOutcome(p, score) ==
    \A i, j \in DOMAIN p :
        i < j =>
            IF IsNaN(score[p[i]]) THEN IsNaN(score[p[j]]) /\ p[i] < p[j]
            ELSE IsNaN(score[p[j]]) \/ Leq(score[p[j]], score[p[i]])

SortOutcomes(score) ==
    {p \in Permutations(1..Len(score)) : IsSortOutcome(p, score)}

\* the tables inclusion_criteria may return, or the error it raises
inclusion_criteria(c, m, w, include_scores) ==
    LET output == Integrate(c, m)
        rows   == output.rows
        n      == Len(rows)
        score_list == SeqOf(TopicKeys(w))
        cite   == Scale(MinMaxNormalise(
                            Series([i \in 1..n |-> rows[i].Citations])),
                        w["cites"])
        rec    == Scale(MinMaxNormalise(
                            Series([i \in 1..n |-> rows[i].Year])),
                        w["recency"])
        wght   == Series([i \in 1..n |->
                     [k \in TopicKeys(w) |-> Mul(rows[i].topics[k], w[k])]])
        total  == Series([i \in 1..n |-> RowSum(wght[i], score_list)])
        topic  == Scale(MinMaxNormalise(total), Lookup(w, "topics").value)
        score  == Series([i \in 1..n |-> Add(Add(cite[i], rec[i]), topic[i])])
        scored == [i \in 1..n |->
                     [idx |-> rows[i].idx,
                      Citations |-> rows[i].Citations,
                      Year |-> rows[i].Year,
                      topics |-> rows[i].topics,
                      weighted |-> IF include_scores THEN wght[i] ELSE <<>>,
                      cite_score |-> cite[i],
                      recency_score |-> rec[i],
                      topic_score |-> topic[i],
                      score |-> score[i]]]
    IN  IF output.err # "none" THEN {output}
        ELSE IF RaisesKeyError(w, output.columns)
        THEN {[err |-> "KeyError", columns |-> <<>>, rows |-> <<>>]}
        ELSE {[err |-> "none",
               columns |-> output.columns,
               rows |-> [i \in 1..n |-> scored[p[i]]]] :
                  p \in SortOutcomes(score)}

(***************************************************************************)
(* Inputs of a scoring session                                             *)
(***************************************************************************)
Years == 2019..(2019 + MaxAge)

Records == [Citations : 0..MaxCites, Year : Years]

Corpora == UNION {[1..n -> Records] : n \in 0..MaxRows}

\* the labels of a fitted model: the outlier topic -1 and the topics 0, 1, ...
Outlier == "-1_outlier"
TopicLabels == <<"0_first">>

\* cells of the distribution matrix
DistrValues == {Num(0), Num(1)}

\* the matrices approximate_distribution can return for r documents
Distributions(r) == [1..r -> [1..Len(TopicLabels) -> DistrValues]]

\* a model as BERTopic fits it: the outlier label comes first in
\* topic_labels_, and the distribution has one row per document
FittedModels(c) ==
    {[topic_labels_ |-> <<Outlier>> \o TopicLabels,
      topic_distr |-> d,
      n_topics |-> Len(TopicLabels)] : d \in Distributions(Len(c))}

\* weight dictionaries: any of the reserved keys and of the topic labels may
\* be there or not
WeightValues == {Num(0), Num(1)}

WeightSpecs ==
    UNION {[K -> WeightValues] :
              K \in SUBSET (Reserved \cup {TopicLabels[j] : j \in 1..Len(TopicLabels)})}

Init ==
    /\ size = 0
    /\ topic_size = 0
    /\ umap_size = 0
    /\ corpus \in Corpora
    /\ model \in FittedModels(corpus)
    /\ weights \in WeightSpecs
    /\ result = [err |-> "none", columns |-> <<>>, rows |-> <<>>]
    /\ pc = "loaded"
    /\ Idle

\* a call of inclusion_criteria(corpus, model, weights)
inclusion_criteria_call ==
    /\ pc = "loaded"
    /\ \E include_scores \in BOOLEAN :
           result' \in inclusion_criteria(corpus, model, weights, include_scores)
    /\ pc' = "ranked"
    /\ UNCHANGED <<size, topic_size, umap_size, corpus, model, weights>>
    /\ UNCHANGED exporter

Next == inclusion_criteria_call

Spec == Init /\ [][Next]_vars

(***************************************************************************)
(* A session on whatever the topic engine hands back: topic_labels_ with   *)
(* the outlier label anywhere or nowhere, and a distribution whose number  *)
(* of rows is up to MaxSkew away from the number of records.  The weights  *)
(* are those of an untouched form (form_display, value_updates).           *)
(***************************************************************************)
\* s with x put in before position i
InsertAt(s, i, x) == SubSeq(s, 1, i - 1) \o <<x>> \o SubSeq(s, i, Len(s))

LabelMappings ==
    {TopicLabels} \cup {InsertAt(TopicLabels, i, Outlier) :
                           i \in 1..(Len(TopicLabels) + 1)}

EngineModels(c) ==
    {[topic_labels_ |-> l, topic_distr |-> d, n_topics |-> Len(TopicLabels)] :
        l \in LabelMappings,
        d \in UNION {Distributions(r) :
                        r \in {q \in 0..(Len(c) + MaxSkew) :
                                  q >= Len(c) - MaxSkew}}}

\* lines 598-631 and 643-645: sliders cites 0, recency 0, topics 10 and 5 for
\* every label after the first, each divided by 10
FormWeights(m) ==
    LET names == IF m.topic_labels_ = <<>> THEN <<>> ELSE Tail(m.topic_labels_)
    IN  [k \in Reserved \cup {names[j] : j \in 1..Len(names)} |->
            IF k = "topics" THEN Num(1)
            ELSE IF k \in {"cites", "recency"} THEN Num(0)
            ELSE Frac(5, 10)]

EInit ==
    /\ size = 0
    /\ topic_size = 0
    /\ umap_size = 0
    /\ corpus \in Corpora
    /\ model \in EngineModels(corpus)
    /\ weights = FormWeights(model)
    /\ result = [err |-> "none", columns |-> <<>>, rows |-> <<>>]
    /\ pc = "loaded"
    /\ Idle

SpecEngine == EInit /\ [][Next]_vars

(***************************************************************************)
(* Claims about inclusion_criteria                                         *)
(***************************************************************************)
Ranked == pc = "ranked"
Returned == Ranked /\ result.err = "none"
AllReserved == Reserved \subseteq DOMAIN weights

\* the rows of the returned table in the order of the input (idx)
ByInput(i) == CHOOSE r \in {result.rows[j] : j \in 1..Len(result.rows)} : r.idx = i

\* the three normalised quantities of a returned table, by input row
CitesColumn == [i \in 1..Len(result.rows) |-> ByInput(i).Citations]
YearColumn == [i \in 1..Len(result.rows) |-> ByInput(i).Year]
TotalColumn ==
    [i \in 1..Len(result.rows) |->
        RowSum([k \in TopicKeys(weights) |->
                   Mul(ByInput(i).topics[k], weights[k])],
               SeqOf(TopicKeys(weights)))]

AllEqual(col) == \A i, j \in DOMAIN col : col[i] = col[j]

\* C1: when the values normalised for a component are equal for every record
\* of a non-empty batch, the call does not fail, that component is 0 for
\* every record and the composite score is a defined number.
C1_DegenerateZeroFill ==
    (Ranked /\ Len(corpus) > 0 /\ AllReserved) =>
        /\ result.err = "none"
        /\ \A i \in 1..Len(result.rows) :
              /\ AllEqual(CitesColumn) => ByInput(i).cite_score = Num(0)
              /\ AllEqual(YearColumn) => ByInput(i).recency_score = Num(0)
              /\ AllEqual(TotalColumn) => ByInput(i).topic_score = Num(0)
              /\ IsFinite(ByInput(i).score)

\* C2: with cites=1, recency=0, topics=0 and pairwise distinct citation
\* counts, the returned order is the order by citation count, descending.
C2_CitationOrder ==
    (/\ Ranked /\ Len(corpus) > 0 /\ AllReserved
     /\ weights["cites"] = Num(1)
     /\ weights["recency"] = Num(0)
     /\ weights["topics"] = Num(0)
     /\ \A i, j \in 1..Len(corpus) :
           i # j => corpus[i].Citations # corpus[j].Citations) =>
        /\ result.err = "none"
        /\ Len(result.rows) = Len(corpus)
        /\ \A i, j \in 1..Len(result.rows) :
              i < j => Less(result.rows[j].Citations, result.rows[i].Citations)

\* comparisons of floats: false as soon as one side is NaN
FGeq(x, y) == ~IsNaN(x) /\ ~IsNaN(y) /\ Leq(y, x)
FEq(x, y) == ~IsNaN(x) /\ ~IsNaN(y) /\ x = y

\* C3: the returned rows are in non-increasing order of composite score and
\* rows of equal score keep the order of the input.
\* The example of the claim (citations 10, 0, 5, 5 under cites=1, recency=0,
\* topics=0 rank as rows 1, 3, 4, 2) is the last conjunct: under these weights
\* the rows come by citation count, descending, equal counts in input order.
C3_StableDescending ==
    Returned =>
        \A i, j \in 1..Len(result.rows) :
            i < j =>
                /\ FGeq(result.rows[i].score, result.rows[j].score)
                /\ FEq(result.rows[i].score, result.rows[j].score)
                      => result.rows[i].idx < result.rows[j].idx
                /\ (/\ weights["cites"] = Num(1)
                    /\ weights["recency"] = Num(0)
                    /\ weights["topics"] = Num(0)
                    /\ TopicKeys(weights) = {}) =>
                       \/ Less(result.rows[j].Citations, result.rows[i].Citations)
                       \/ /\ result.rows[j].Citations = result.rows[i].Citations
                          /\ result.rows[i].idx < result.rows[j].idx

\* the part of C4 about one quantity: col holds its values, comp the weighted
\* component of the returned table, w the reserved weight
MinMaxBounds(col, comp, w) ==
    LET norm == MinMaxNormalise(col)
        mn == SeriesMin(col)
        mx == SeriesMax(col)
    IN  (~AllEqual(col)) =>
            \A i \in DOMAIN col :
                /\ Leq(Num(0), norm[i]) /\ Leq(norm[i], Num(1))
                /\ col[i] = mx => (norm[i] = Num(1) /\ comp[i] = w)
                /\ col[i] = mn => (norm[i] = Num(0) /\ comp[i] = Num(0))

\* C4: in a batch where the normalised quantity (citation count, year, raw
\* weighted topic total) takes at least two values, every normalised value is
\* in [0,1], the records at the maximum get 1 and those at the minimum 0, so
\* the component is the reserved weight at the maximum and 0 at the minimum.
C4_MinMaxNormalised ==
    Returned =>
        /\ MinMaxBounds(Series(CitesColumn),
              [i \in 1..Len(result.rows) |-> ByInput(i).cite_score],
              weights["cites"])
        /\ MinMaxBounds(Series(YearColumn),
              [i \in 1..Len(result.rows) |-> ByInput(i).recency_score],
              weights["recency"])
        /\ MinMaxBounds(Series(TotalColumn),
              [i \in 1..Len(result.rows) |-> ByInput(i).topic_score],
              weights["topics"])

C4_Witness ==
    /\ Returned
    /\ Len(result.rows) = MaxRows
    /\ ~AllEqual(CitesColumn) /\ ~AllEqual(YearColumn) /\ ~AllEqual(TotalColumn)
    /\ weights["cites"] = Num(1) /\ weights["recency"] = Num(1)
    /\ weights["topics"] = Num(1)
    /\ \E i, j \in 1..Len(result.rows) :
          /\ result.rows[i].cite_score = Num(1)
          /\ result.rows[j].cite_score = Num(0)
          /\ result.rows[i].score = Num(3)

\* C7: when one of the keys cites, recency, topics is absent from the
\* weights, the call fails and returns no table, whatever the corpus and the
\* other keys.
C7_MissingReservedFails ==
    (Ranked /\ ~AllReserved) => (result.err # "none" /\ result.rows = <<>>)

C7_Witness ==
    /\ Ranked
    /\ Len(corpus) > 0
    /\ DOMAIN weights = {"cites", "recency", TopicLabels[1]}
    /\ result.err = "KeyError"

\* C8: on a corpus of zero rows the call fails instead of returning a table.
C8_EmptyCorpusFails ==
    (Ranked /\ Len(corpus) = 0 /\ AllReserved) => result.err # "none"

\* C9: when the distribution has not as many rows as the corpus, integration
\* fails and yields no table.
C9_AlignmentMismatchFails ==
    (Ranked /\ Len(corpus) > 0 /\ Len(model.topic_distr) # Len(corpus)) =>
        (result.err # "none" /\ result.rows = <<>>)

\* C10: for every label mapping, integration adds exactly one column per
\* non-outlier label, holding for each record the matrix value of that topic
\* for that document, and no column for the outlier label.  (Stated for the
\* sessions in which the distribution has one row per record of a non-empty
\* corpus.)
C10_OneColumnPerTopic ==
    (Ranked /\ Len(corpus) > 0 /\ Len(model.topic_distr) = Len(corpus)) =>
        /\ result.err = "none"
        /\ {result.columns[j] : j \in 1..Len(result.columns)}
              = {TopicLabels[j] : j \in 1..Len(TopicLabels)}
        /\ \A r \in 1..Len(result.rows) : \A j \in 1..Len(TopicLabels) :
              result.rows[r].idx <= Len(model.topic_distr) =>
                  result.rows[r].topics[TopicLabels[j]]
                      = model.topic_distr[result.rows[r].idx][j]

\* a session that only sizes corpora: the tables stay empty
NoTable == [err |-> "none", columns |-> <<>>, rows |-> <<>>]

SInit ==
    /\ size \in 0..MaxSize
    /\ topic_size = 0
    /\ umap_size = 0
    /\ corpus = <<>>
    /\ model = [topic_labels_ |-> <<>>, topic_distr |-> <<>>, n_topics |-> 0]
    /\ weights = <<>>
    /\ result = NoTable
    /\ pc = "ready"
    /\ Idle

\* a call of hyperP_scaler, on a corpus at least as large as the last one
hyperP_scaler_call ==
    \E k \in 0..MaxGrow :
        LET out == hyperP_scaler(size + k)
        IN  /\ pc = "ready" \/ k > 0
            /\ pc \in {"ready", "scaled"}
            /\ size + k <= MaxSize
            /\ size' = size + k
            /\ topic_size' = out[1]
            /\ umap_size' = out[2]
            /\ pc' = "scaled"
            /\ UNCHANGED <<corpus, model, weights, result>>
            /\ UNCHANGED exporter

SNext == hyperP_scaler_call

SpecScaler == SInit /\ [][SNext]_vars

\* C5: for corpus sizes m <= n both outputs of hyperP_scaler for m are at
\* most those for n, and both outputs are at least 1 for every size
\* (0 included).  The sizes of successive calls grow by 0..MaxGrow from any
\* start size, so every pair m <= n of sizes is linked by a chain of calls.
C5_MonotoneAtLeastOne ==
    /\ [](pc = "scaled" => topic_size >= 1 /\ umap_size >= 1)
    /\ [][(pc = "scaled" /\ size' >= size)
            => (topic_size' >= topic_size /\ umap_size' >= umap_size)]_vars

C5_Witness ==
    pc = "scaled" /\ size = RefScale /\ topic_size > 1 /\ umap_size > topic_size

\* C6: for every corpus size n, min_topic_size = floor(10*n/2000) + 1 and
\* neighborhood_size = floor(15*n/2000) + 1
C6_LinearFormula ==
    pc = "scaled" =>
        /\ topic_size = (TopicSlope * size) \div RefScale + 1
        /\ umap_size = (UmapSlope * size) \div RefScale + 1

(***************************************************************************)
(* The shortlist exporter: return_included_papers.                         *)
(* A path is the sequence of its components; an argument that names a file *)
(* is [abs, parts], relative to the working directory unless abs.          *)
(***************************************************************************)
Root == <<>>
Parent(p) == SubSeq(p, 1, Len(p) - 1)

\* '/content/sources' or '/sources' (lines 716-730), and likewise eda, output
OutputDir(nbook, name) ==
    IF nbook = "colab" THEN <<"content", name>> ELSE <<name>>

\* lines 712-730 (76-93, 506-522): with save, a directory that is there is
\* renamed with a timestamp, then the directory is made and entered; os.mkdir
\* raises FileNotFoundError when the parent is missing
EnterOutputDir(f, nbook, save, name) ==
    LET d == OutputDir(nbook, name)
    IN  IF ~save THEN [err |-> "none", fs |-> f]
        ELSE IF Parent(d) \notin (f.dirs \cup {Root})
        THEN [err |-> "FileNotFoundError", fs |-> f]
        ELSE [err |-> "none",
              fs |-> [f EXCEPT !.cwd = d,
                               !.dirs = @ \cup {d},
                               !.archived = IF d \in f.dirs THEN @ + 1 ELSE @]]

\* 'content/' in ris_file (lines 26, 742)
MentionsContent(p) == \E i \in 1..(Len(p.parts) - 1) : p.parts[i] = "content"

\* lines 25-27 and 741-743: '/content/' + ris_file under colab
RisPath(ris_file, nbook) ==
    IF nbook = "colab" /\ ~MentionsContent(ris_file)
    THEN [abs |-> TRUE, parts |-> <<"content">> \o ris_file.parts]
    ELSE ris_file

\* the file that open(ris_file, 'r') looks for
Resolve(cwd, p) == IF p.abs THEN p.parts ELSE cwd \o p.parts

\* a cell that holds no value in a column of strings
NA == "NaN"

\* Title and Source of a ranked row: those of its corpus row
KeyOf(c, idx) ==
    IF idx <= Len(c) THEN <<c[idx].Title, c[idx].Source>> ELSE <<NA, NA>>

\* DataFrame.tail(n), taken by mistake for head(n)
head_Tail(df, n) ==
    SubSeq(df, Len(df) - (IF n < Len(df) THEN n ELSE Len(df)) + 1, Len(df))

\* DataFrame.head(n) for n >= 0 (line 736)
head(df, n) == SubSeq(df, 1, IF n < Len(df) THEN n ELSE Len(df))

\* lines 735-736
Truncate(df, n) == IF n.all THEN df ELSE head(df, n.count)

\* pd.DataFrame(entries): one column per key that some entry has
ColumnsOf(entries) == UNION {DOMAIN entries[j] : j \in 1..Len(entries)}

Cell(e, col) == IF col \in DOMAIN e THEN e[col] ELSE NA

\* the entries whose (title, secondary_title) is the key, in file order
RECURSIVE MatchingFrom(_, _, _)
MatchingFrom(entries, key, j) ==
    IF j > Len(entries) THEN <<>>
    ELSE (IF <<entries[j].title, entries[j].secondary_title>> = key
          THEN <<j>> ELSE <<>>) \o MatchingFrom(entries, key, j + 1)

\* a row of the merge: the cells of entry j (of no entry when j = 0) and the
\* score columns of the ranked row r; "of" and "entry" keep track of where
\* the row comes from and are no columns
MergedRow(entries, j, r) ==
    [fields |-> [col \in ColumnsOf(entries) |->
                    IF j = 0 THEN NA ELSE Cell(entries[j], col)],
     score |-> r.score,
     cite_score |-> r.cite_score,
     recency_score |-> r.recency_score,
     topic_score |-> r.topic_score,
     of |-> r.idx,
     entry |-> j]

\* lines 752-754: temp_df.merge(ranked, how='right', left_on=[title,
\* secondary_title], right_on=[Title, Source]): the rows of the right table
\* in their order, each once per matching entry, or once with empty cells
RECURSIVE merge(_, _, _, _)
merge(entries, right, c, i) ==
    IF i > Len(right) THEN <<>>
    ELSE LET r == right[i]
             m == MatchingFrom(entries, KeyOf(c, r.idx), 1)
         IN  (IF m = <<>> THEN <<MergedRow(entries, 0, r)>>
              ELSE [k \in 1..Len(m) |-> MergedRow(entries, m[k], r)])
             \o merge(entries, right, c, i + 1)

\* line 766: fillna(value="none"), on a cell of strings and on a number
FillText(x) == IF x = NA THEN "none" ELSE x
FillNumber(x) == IF IsNaN(x) THEN [none |-> TRUE, value |-> NaN]
                 ELSE [none |-> FALSE, value |-> x]

\* lines 757-769: the entry written for a merged row
Entry(row) ==
    [fields |-> [col \in DOMAIN row.fields |-> FillText(row.fields[col])],
     custom1 |-> FillNumber(row.score),
     custom2 |-> FillNumber(row.cite_score),
     custom3 |-> FillNumber(row.recency_score),
     custom4 |-> FillNumber(row.topic_score),
     of |-> row.of,
     entry |-> row.entry]

\* lines 745-772 on the entries of the file
RoundTrip(entries, ranked_df, c) ==
    LET merged == merge(entries, ranked_df, c, 1)
        score  == Series([i \in 1..Len(merged) |-> merged[i].score])
    IN  {Series([i \in 1..Len(merged) |-> Entry(merged[p[i]])]) :
            p \in SortOutcomes(score)}

ExportOutcome(e) == [err |-> e, n |-> [all |-> TRUE, count |-> 0], returned |-> <<>>,
              csv_written |-> FALSE, csv |-> <<>>,
              ris_written |-> FALSE, ris |-> <<>>]

\* lines 733-774 for one ranking: file is [given, found, entries]
ExportRanking(ranking, n, c, file) ==
    LET ranked_df == Truncate(ranking.rows, n)
        written   == [ExportOutcome("none") EXCEPT !.n = n, !.csv_written = TRUE,
                                            !.csv = ranked_df]
    IN  IF ranking.err # "none" THEN {[ExportOutcome(ranking.err) EXCEPT !.n = n]}
        ELSE IF ~file.given THEN {[written EXCEPT !.returned = ranked_df]}
        ELSE IF ~file.found
        THEN {[written EXCEPT !.err = "FileNotFoundError"]}
        ELSE IF file.entries = <<>> THEN {[written EXCEPT !.err = "KeyError"]}
        ELSE {[written EXCEPT !.returned = ranked_df,
                              !.ris_written = TRUE,
                              !.ris = out] :
                 out \in RoundTrip(file.entries, ranked_df, c)}

\* the process after a call: the call is counted and remembered.  "seen"
\* holds the (ris_file, nbook) arguments a file was opened with, "first" the
\* first ranking returned, "clean" whether every call so far succeeded and
\* had save enabled, "last" whether the call repeated arguments of "seen",
\* whether it returned the first ranking again and whether it came after
\* clean calls only.
AfterCall(f, op, save, err, opened, arg, ranking) ==
    [f EXCEPT !.calls = @ + 1,
              !.seen = IF opened THEN @ \cup {arg} ELSE @,
              !.first = IF @ = <<>> /\ err = "none" THEN ranking ELSE @,
              !.clean = @ /\ save /\ err = "none",
              !.last = [op |-> op, err |-> err,
                        again |-> arg \in f.seen,
                        same |-> f.first = <<>> \/ ranking = <<>>
                                    \/ ranking = f.first,
                        after_clean |-> f.clean]]

NoFile == [given |-> FALSE, abs |-> FALSE, parts |-> <<>>]

\* a call of return_included_papers(n, corpus, model, weights, ris_file,
\* nbook, save)
return_included_papers_call(ns, ris_files, nbooks, saves) ==
    \E n \in ns, ris_file \in ris_files, nbook \in nbooks, save \in saves :
        LET entered == EnterOutputDir(fs, nbook, save, "sources")
            path    == Resolve(entered.fs.cwd, RisPath(ris_file, nbook))
            file    == [given |-> ris_file.given,
                        found |-> ris_file.given /\ path \in entered.fs.files,
                        entries |-> raw]
        IN  /\ pc \in {"loaded", "open"}
            /\ fs.calls < MaxCalls
            /\ pc' = IF pc = "open" THEN "open" ELSE "exported"
            /\ IF entered.err # "none"
               THEN /\ result' = [NoTable EXCEPT !.err = entered.err]
                    /\ export' = [ExportOutcome(entered.err) EXCEPT !.n = n]
               ELSE \E ranking \in
                        inclusion_criteria(corpus, model, weights, FALSE) :
                        /\ result' = ranking
                        /\ export' \in ExportRanking(ranking, n, corpus, file)
            /\ fs' = AfterCall(entered.fs, "return_included_papers", save,
                               export'.err, file.found,
                               <<ris_file, nbook>>,
                               [j \in 1..Len(export'.returned) |->
                                   export'.returned[j].idx])
            /\ UNCHANGED <<size, topic_size, umap_size, corpus, model,
                           weights, raw>>

(***************************************************************************)
(* An export session under colab: a scored corpus, the entries of a RIS    *)
(* file at /content/refs.ris, and one call of return_included_papers.      *)
(***************************************************************************)
Titles == {"t1", "t2"}
Sources == {"s1"}
DOIs == {"10.1/a"}

\* a record of the corpus of row i; years and topic values alternate with
\* the row so that they differ within a corpus of two rows or more
ExportRecords(i) ==
    [Citations : 0..MaxCites, Year : {2019 + (i % 2)},
     Title : Titles, Source : Sources]

ExportCorpora ==
    UNION {{c \in [1..k -> UNION {ExportRecords(i) : i \in 1..k}] :
               \A i \in 1..k : c[i] \in ExportRecords(i)} : k \in 0..MaxRows}

ExportModel(c) ==
    [topic_labels_ |-> <<Outlier>> \o TopicLabels,
     topic_distr |-> [i \in 1..Len(c) |->
                         [j \in 1..Len(TopicLabels) |-> Num(i % 2)]],
     n_topics |-> Len(TopicLabels)]

\* all criteria at 1; citations only; the three criteria at 0 (every score
\* is 0 and the records tie); everything at 0
ExportWeights ==
    {[k \in Reserved \cup {TopicLabels[j] : j \in 1..Len(TopicLabels)} |->
         IF k \in on THEN Num(1) ELSE Num(0)] :
        on \in {Reserved \cup {TopicLabels[1]}, {"cites", TopicLabels[1]},
                {TopicLabels[1]}, {}}}

\* entries as rispy.load yields them: every entry has a title and a
\* secondary_title, some have a doi
RawEntries ==
    [title : Titles, secondary_title : Sources]
        \cup [title : Titles, secondary_title : Sources, doi : DOIs]

RawFiles == UNION {[1..k -> RawEntries] : k \in 0..MaxEntries}

RefsFile == [given |-> TRUE, abs |-> FALSE, parts |-> <<"refs.ris">>]

ColabFs == [NoFs EXCEPT !.cwd = <<"content">>,
                        !.dirs = {<<"content">>},
                        !.files = {<<"content", "refs.ris">>}]

Counts == {[all |-> TRUE, count |-> 0]}
              \cup {[all |-> FALSE, count |-> k] : k \in 0..(MaxRows + 1)}

XInit ==
    /\ size = 0
    /\ topic_size = 0
    /\ umap_size = 0
    /\ corpus \in ExportCorpora
    /\ model = ExportModel(corpus)
    /\ weights \in ExportWeights
    /\ result = NoTable
    /\ pc = "loaded"
    /\ raw \in RawFiles
    /\ export = NoExport
    /\ fs = ColabFs

XNext == return_included_papers_call(Counts, {NoFile, RefsFile},
                                     {"colab"}, {TRUE})

SpecExport == XInit /\ [][XNext]_vars

(***************************************************************************)
(* Claims about return_included_papers                                     *)
(***************************************************************************)
\* the call returned and wrote the round-trip file
RoundTripped == pc = "exported" /\ export.err = "none" /\ export.ris_written

\* the entries written for the ranked record of corpus row idx
EntriesOf(idx) == {i \in 1..Len(export.ris) : export.ris[i].of = idx}

\* C11: with round-trip entries supplied, every record of the truncated
\* ranked subset appears exactly once in the round-trip output, which has as
\* many entries as the subset, also with shared (title, source) keys and with
\* records that match no raw entry.
C11_ExactlyOnce ==
    RoundTripped =>
        /\ \A j \in 1..Len(export.returned) :
               Cardinality(EntriesOf(export.returned[j].idx)) = 1
        /\ Len(export.ris) = Len(export.returned)

\* the ranked record an entry was written for
RankedOf(e) ==
    CHOOSE r \in {export.returned[j] : j \in 1..Len(export.returned)} :
        r.idx = e.of

IsNumber(cell, x) == ~cell.none /\ ~IsNaN(x) /\ cell.value = x

Matched(e) == e.entry # 0

\* C12: every entry of the round-trip output carries custom1..custom4 equal
\* to the composite, citation, recency and topic scores of its ranked record;
\* "none" appears only in rows that matched no raw entry, so a matched row
\* has four numbers and its raw fields exactly as in the raw entry.
C12_ScoreFieldsAndSentinel ==
    RoundTripped =>
        \A i \in 1..Len(export.ris) :
            LET e == export.ris[i]
                r == RankedOf(e)
            IN  /\ IsNumber(e.custom1, r.score)
                /\ IsNumber(e.custom2, r.cite_score)
                /\ IsNumber(e.custom3, r.recency_score)
                /\ IsNumber(e.custom4, r.topic_score)
                /\ Matched(e) =>
                      /\ \A col \in DOMAIN e.fields : e.fields[col] # "none"
                      /\ DOMAIN e.fields = DOMAIN raw[e.entry]
                      /\ \A col \in DOMAIN e.fields :
                             e.fields[col] = raw[e.entry][col]

\* the first min(n, number of ranked records) records of the ranking that
\* inclusion_criteria produced, all of them when n is "all"
Prefix ==
    IF export.n.all THEN result.rows
    ELSE SubSeq(result.rows, 1,
                IF export.n.count < Len(result.rows) THEN export.n.count
                ELSE Len(result.rows))

PrefixRows == {Prefix[j].idx : j \in 1..Len(Prefix)}

PlaceOf(idx) ==
    CHOOSE j \in 1..Len(export.returned) : export.returned[j].idx = idx

\* entries in non-increasing order of custom1, where custom1 is a number
NonIncreasing ==
    \A i, j \in 1..Len(export.ris) :
        (i < j /\ ~export.ris[i].custom1.none /\ ~export.ris[j].custom1.none)
            => Leq(export.ris[j].custom1.value, export.ris[i].custom1.value)

\* C14: the entries of the round-trip export are in non-increasing order of
\* custom1, that is, in the order of the ranked subset they were merged with.
C14_ExportOrder ==
    RoundTripped =>
        /\ NonIncreasing
        /\ \A i, j \in 1..Len(export.ris) :
               i < j => PlaceOf(export.ris[i].of) <= PlaceOf(export.ris[j].of)

(***************************************************************************)
(* A notebook session: calls of file_loader, corpus_eda, topic_outputs and *)
(* return_included_papers in any order on one corpus, one model and one    *)
(* RIS file, under colab (the file is /content/refs.ris and the session    *)
(* starts in /content) or on a local machine (/home/refs.ris, /home).      *)
(***************************************************************************)
\* lines 17-30 of file_loader: the path is fixed as under colab and the file
\* opened; the table parsed from it is not bound to the corpus of the session
file_loader_call(ris_files, nbooks) ==
    \E ris_file \in ris_files, nbook \in nbooks :
        LET path  == Resolve(fs.cwd, RisPath(ris_file, nbook))
            found == path \in fs.files
        IN  /\ pc = "open"
            /\ fs.calls < MaxCalls
            /\ result' = [NoTable EXCEPT
                             !.err = IF found THEN "none"
                                     ELSE "FileNotFoundError"]
            /\ fs' = AfterCall(fs, "file_loader", TRUE, result'.err, found,
                               <<ris_file, nbook>>, <<>>)
            /\ UNCHANGED <<size, topic_size, umap_size, corpus, model,
                           weights, raw, export, pc>>

\* lines 75-93 of corpus_eda: the figures are written into the directory
\* entered
corpus_eda_call(nbooks, saves) ==
    \E nbook \in nbooks, save \in saves :
        LET entered == EnterOutputDir(fs, nbook, save, "eda")
        IN  /\ pc = "open"
            /\ fs.calls < MaxCalls
            /\ result' = [NoTable EXCEPT !.err = entered.err]
            /\ fs' = AfterCall(entered.fs, "corpus_eda", save, entered.err,
                               FALSE, <<NoFile, nbook>>, <<>>)
            /\ UNCHANGED <<size, topic_size, umap_size, corpus, model,
                           weights, raw, export, pc>>

\* lines 506-570 of topic_outputs: the directory is entered, the figures and
\* the integrated table (lines 557-570) are written into it
topic_outputs_call(nbooks, saves) ==
    \E nbook \in nbooks, save \in saves :
        LET entered == EnterOutputDir(fs, nbook, save, "output")
            output  == Integrate(corpus, model)
        IN  /\ pc = "open"
            /\ fs.calls < MaxCalls
            /\ result' = IF entered.err # "none"
                         THEN [NoTable EXCEPT !.err = entered.err]
                         ELSE output
            /\ fs' = AfterCall(entered.fs, "topic_outputs", save, result'.err,
                               FALSE, <<NoFile, nbook>>, <<>>)
            /\ UNCHANGED <<size, topic_size, umap_size, corpus, model,
                           weights, raw, export, pc>>

ContentRefsFile ==
    [given |-> TRUE, abs |-> TRUE, parts |-> <<"content", "refs.ris">>]
HomeRefsFile ==
    [given |-> TRUE, abs |-> TRUE, parts |-> <<"home", "refs.ris">>]
RisFiles == {RefsFile, ContentRefsFile, HomeRefsFile}

LocalFs == [NoFs EXCEPT !.cwd = <<"home">>,
                        !.dirs = {<<"home">>},
                        !.files = {<<"home", "refs.ris">>}]

\* two records that differ in citations, year, title and topic value
SessionCorpus ==
    <<[Citations |-> 0, Year |-> 2020, Title |-> "t1", Source |-> "s1"],
      [Citations |-> 1, Year |-> 2019, Title |-> "t2", Source |-> "s1"]>>

SessionRaw ==
    <<[title |-> "t1", secondary_title |-> "s1"],
      [title |-> "t2", secondary_title |-> "s1"]>>

NInit ==
    /\ size = 0
    /\ topic_size = 0
    /\ umap_size = 0
    /\ corpus = SessionCorpus
    /\ model = ExportModel(corpus)
    /\ weights = FormWeights(model)
    /\ result = NoTable
    /\ pc = "open"
    /\ raw = SessionRaw
    /\ export = NoExport
    /\ fs \in {ColabFs, LocalFs}

NNext ==
    \/ file_loader_call(RisFiles, {"colab", "local"})
    \/ corpus_eda_call({"colab", "local"}, BOOLEAN)
    \/ topic_outputs_call({"colab", "local"}, BOOLEAN)
    \/ return_included_papers_call({[all |-> TRUE, count |-> 0]},
                                   RisFiles \cup {NoFile},
                                   {"colab", "local"}, BOOLEAN)

SpecSession == NInit /\ [][NNext]_vars

\* C15: after successful calls of corpus_eda, topic_outputs and
\* return_included_papers with save enabled, a call of return_included_papers
\* or file_loader with a ris_file argument (and nbook) that a file was opened
\* with before succeeds and returns the ranking of the first call, whatever
\* working directory the earlier calls left behind.
C15_RepeatableRuns ==
    (/\ fs.last.op \in {"return_included_papers", "file_loader"}
     /\ fs.last.again
     /\ fs.last.after_clean)
        => (fs.last.err = "none" /\ fs.last.same)

(***************************************************************************)
(* fit_topic_model, and the tables that the three functions are handed.    *)
(* The variables corpus and weights are the objects passed by the caller;  *)
(* what a function returns is in result and export.                        *)
(***************************************************************************)
\* the rows that have an abstract
RECURSIVE WithAbstract(_)
WithAbstract(c) ==
    IF c = <<>> THEN <<>>
    ELSE (IF Head(c).Abstract = NA THEN <<>> ELSE <<Head(c)>>)
             \o WithAbstract(Tail(c))

\* dropna(subset=['Abstract'], inplace=True): the rows leave the table passed
dropna_Inplace(c) == [passed |-> WithAbstract(c), returned |-> WithAbstract(c)]

\* line 340: corpus = corpus.dropna(subset=['Abstract']) makes a new table
\* and binds the local name to it; the table passed keeps its rows
dropna(c) == [passed |-> c, returned |-> WithAbstract(c)]

Unfitted == [topic_labels_ |-> <<>>, topic_distr |-> <<>>, n_topics |-> 0]

\* a call of fit_topic_model(corpus, topic_model); fit_transform (line 343)
\* returns, or raises or is cancelled
fit_topic_model_call ==
    \E done \in BOOLEAN :
        LET dropped == dropna(corpus)
        IN  /\ pc = "raw"
            /\ corpus' = dropped.passed
            /\ result' = IF done
                         THEN [err |-> "none", columns |-> <<>>,
                               rows |-> dropped.returned]
                         ELSE [NoTable EXCEPT !.err = "Cancelled"]
            /\ model' = IF done THEN ExportModel(dropped.returned) ELSE model
            /\ pc' = "fitted"
            /\ UNCHANGED <<size, topic_size, umap_size, weights>>
            /\ UNCHANGED exporter

\* a corpus as file_loader yields it: some records have no abstract
LoadedRecords(i) ==
    [Citations : 0..MaxCites, Year : {2019 + (i % 2)},
     Title : {"t1"}, Source : Sources, Abstract : {"text", NA}]

LoadedCorpora ==
    UNION {{c \in [1..k -> UNION {LoadedRecords(i) : i \in 1..k}] :
               \A i \in 1..k : c[i] \in LoadedRecords(i)} : k \in 0..MaxRows}

\* RIS files: an entry for each title, for one title only, twice the same
FrameRaws ==
    {SessionRaw, <<SessionRaw[1]>>, <<SessionRaw[1], SessionRaw[1]>>}

\* before the fit: a loaded corpus and a model that is not fitted; after it:
\* a corpus, its fitted model and the weights of a form
FInit ==
    /\ size = 0
    /\ topic_size = 0
    /\ umap_size = 0
    /\ result = NoTable
    /\ raw \in FrameRaws
    /\ export = NoExport
    /\ fs = ColabFs
    /\ \/ /\ pc = "raw"
          /\ corpus \in LoadedCorpora
          /\ model = Unfitted
          /\ weights = <<>>
       \/ /\ pc = "loaded"
          /\ corpus \in ExportCorpora
          /\ model = ExportModel(corpus)
          /\ weights \in ExportWeights

FNext ==
    \/ fit_topic_model_call
    \/ inclusion_criteria_call
    \/ return_included_papers_call(Counts, {NoFile, RefsFile},
                                   {"colab"}, {TRUE})

SpecFrame == FInit /\ [][FNext]_vars

\* the columns that scoring and integration add to a table
AddedColumns ==
    {"score", "cite_score", "recency_score", "topic_score"}
        \cup {TopicLabels[j] : j \in 1..Len(TopicLabels)}

\* C16: fit_topic_model, inclusion_criteria and return_included_papers leave
\* the corpus table and the weights passed to them as they were (rows, row
\* order, columns, values), whether they succeed or fail; the corpus never
\* has a score or topic column.
C16_InputsUntouched ==
    /\ [][corpus' = corpus /\ weights' = weights]_vars
    /\ [](\A i \in 1..Len(corpus) : DOMAIN corpus[i] \cap AddedColumns = {})

C16_Witness ==
    /\ pc = "fitted"
    /\ result.err = "none"
    /\ Len(result.rows) < Len(corpus)
    /\ \E i \in 1..Len(corpus) : corpus[i].Abstract = NA

====
